---- MODULE Spec2Model ----
(***************************************************************************)
(* photonlib/meta.py: AABox (axis-aligned box) and VoxelMeta (the box cut  *)
(* into a uniform grid of voxels), with the conversions between absolute   *)
(* coordinates, per-axis voxel indices and flattened voxel ids.            *)
(*                                                                         *)
(* A float32 tensor element is modelled as an exact rational <<n, d>> in   *)
(* lowest terms with d > 0 (rounding of float32 arithmetic is not          *)
(* modelled); an int64 tensor element is an integer.  A tensor of N        *)
(* elements is a function over 0 .. N-1, so that t[0] reads as in the      *)
(* source.  Every method is an operator of (self, arguments) that yields   *)
(* the record [self, ret, raised]: the instance after the call, the value  *)
(* returned and the exception raised ("" when none).                       *)
(***************************************************************************)
EXTENDS Integers, Sequences, FiniteSets, TLC

VARIABLES meta, ctor, op, arg, ret, err, files

vars == <<meta, ctor, op, arg, ret, err, files>>

(* ------------------------------ bounds -------------------------------- *)

\* the largest voxel count along one axis
MaxShape == 2

\* coordinates are the halves k/2 with -MaxCoord <= k <= MaxCoord
MaxCoord == 2

\* how far outside [0, shape) an index component, and outside
\* [0, total) a voxel id, is drawn
MaxOutside == 1

\* h5py.File is opened at most this many times in a behaviour
MaxOpen == 2

Axes == 0 .. 2

\* the minimum points and the box lengths the grids are drawn from
MinSet == {-1, 0}

LenSet == {1}

(* --------------------------- float32 values --------------------------- *)

Abs(i) == IF i < 0 THEN -i ELSE i

RECURSIVE GCD(_, _)
GCD(a, b) == IF b = 0 THEN a ELSE GCD(b, a % b)

\* the rational n/d (d # 0) in lowest terms with a positive denominator
Rat(n, d) ==
  LET g == GCD(Abs(n), Abs(d))
      s == IF d < 0 THEN -1 ELSE 1
  IN  <<(s * n) \div g, (s * d) \div g>>

FromInt(i) == <<i, 1>>

RatAdd(p, q) == Rat(p[1] * q[2] + q[1] * p[2], p[2] * q[2])

RatSub(p, q) == Rat(p[1] * q[2] - q[1] * p[2], p[2] * q[2])

RatMul(p, q) == Rat(p[1] * q[1], p[2] * q[2])

RatDiv(p, q) == Rat(p[1] * q[2], p[2] * q[1])

RatLt(p, q) == p[1] * q[2] < q[1] * p[2]

\* floor of a rational (used to state the claims, not by the code)
Floor(p) == p[1] \div p[2]

Min2(a, b) == IF a < b THEN a ELSE b

Max2(a, b) == IF a > b THEN a ELSE b

\* the value a call yields
Return(self, value) == [self |-> self, ret |-> value, raised |-> ""]

Raise(self, exc) == [self |-> self, ret |-> <<>>, raised |-> exc]

(* ------------------------------- AABox -------------------------------- *)

\* torch.diff(ranges).flatten(): max - min of every row of the N x 2 table
TorchDiff(ranges) == [a \in DOMAIN ranges |-> RatSub(ranges[a][1], ranges[a][0])]

AABox_init(ranges) ==
  [cls |-> "AABox", ranges |-> ranges, lengths |-> TorchDiff(ranges)]

\* norm_pos = pos - ranges[:,0] is a new tensor; the in-place /=, *=, -=
\* act on it
norm_coord(self, pos) ==
  LET ranges == self.ranges
      norm_pos == [a \in Axes |-> RatSub(pos[a], ranges[a][0])]
      divided == [a \in Axes |-> RatDiv(norm_pos[a], self.lengths[a])]
      doubled == [a \in Axes |-> RatMul(divided[a], FromInt(2))]
      shifted == [a \in Axes |-> RatSub(doubled[a], FromInt(1))]
  IN  Return(self, shifted)

(* ------------------------------ VoxelMeta ----------------------------- *)

VoxelMeta_init(shape, ranges) ==
  [cls |-> "VoxelMeta",
   ranges |-> ranges,
   lengths |-> TorchDiff(ranges),
   shape |-> shape,
   voxel_size |-> [a \in Axes |-> RatDiv(TorchDiff(ranges)[a], FromInt(shape[a]))]]

\* the product of the shape (what the claims call the total voxel count)
Prod(shape) == shape[0] * shape[1] * shape[2]

\* torch has prod and no attribute product: the attribute lookup raises
VoxelMeta_len(self) == Raise(self, "AttributeError")

\* idx_to_voxel with the stride of axis 1 taken from ny instead of nx
idx_to_voxel_stride_ny(self, idx) ==
  LET nx == self.shape[0]
      ny == self.shape[1]
      vox == idx[0] + idx[1] * ny + idx[2] * nx * ny
  IN  Return(self, vox)

idx_to_voxel(self, idx) ==
  LET nx == self.shape[0]
      ny == self.shape[1]
      vox == idx[0] + idx[1] * nx + idx[2] * nx * ny
  IN  Return(self, vox)

\* a division that rounds towards zero instead
trunc_divide(a, b) == IF a >= 0 THEN a \div b ELSE -((-a) \div b)

\* torch.floor_divide rounds towards minus infinity, as \div does
floor_divide(a, b) == a \div b

\* the % of tensors is the remainder with the sign of the divisor
remainder(a, b) == a % b

voxel_to_idx(self, voxel) ==
  LET nx == self.shape[0]
      ny == self.shape[1]
      idx == [a \in Axes |->
                CASE a = 0 -> remainder(voxel, nx)
                  [] a = 1 -> remainder(floor_divide(voxel, nx), ny)
                  [] a = 2 -> floor_divide(voxel, nx * ny)]
  IN  Return(self, idx)

check_valid_idx(self, idx, return_components) ==
  LET shape == self.shape
      mask == [a \in Axes |-> (idx[a] >= 0) /\ (idx[a] < shape[a])]
  IN  IF return_components
        THEN Return(self, mask)
        ELSE Return(self, \A a \in Axes : mask[a])

\* the cast .type(torch.int64) of one float element: the fraction is
\* dropped, rounding towards zero
ToInt64(p) == IF p[1] >= 0 THEN p[1] \div p[2] ELSE -((-p[1]) \div p[2])

as_int64(idx) == [a \in DOMAIN idx |-> ToInt64(idx[a])]

\* idx_to_coord with the sum accumulated in the view ranges[:,0]
\* itself (coord = ranges[:,0]; coord += ...), which writes into the box
idx_to_coord_in_place(self, idx) ==
  LET voxel_size == self.voxel_size
      ranges == self.ranges
      coord == [a \in Axes |->
                  RatMul(RatAdd(FromInt(idx[a]), Rat(1, 2)), voxel_size[a])]
      added == [a \in Axes |-> RatAdd(coord[a], ranges[a][0])]
      written == [a \in Axes |-> [k \in 0 .. 1 |-> IF k = 0 THEN added[a] ELSE ranges[a][1]]]
  IN  Return([self EXCEPT !.ranges = written], added)

\* idx_to_coord without the shift by the minimum point
idx_to_coord_no_min(self, idx) ==
  LET voxel_size == self.voxel_size
      coord == [a \in Axes |->
                  RatMul(RatAdd(FromInt(idx[a]), Rat(1, 2)), voxel_size[a])]
  IN  Return(self, coord)

\* coord = (idx+0.5) * voxel_size is a new tensor; coord += ranges[:,0]
\* acts on it
idx_to_coord(self, idx) ==
  LET voxel_size == self.voxel_size
      ranges == self.ranges
      coord == [a \in Axes |->
                  RatMul(RatAdd(FromInt(idx[a]), Rat(1, 2)), voxel_size[a])]
      added == [a \in Axes |-> RatAdd(coord[a], ranges[a][0])]
  IN  Return(self, added)

voxel_to_coord(self, voxel) ==
  LET r == voxel_to_idx(self, voxel)
  IN  idx_to_coord(r.self, r.ret)

\* coord_to_idx with the upper clamp at n instead of n-1
coord_to_idx_clamp_n(self, coord) ==
  LET step == self.voxel_size
      ranges == self.ranges
      quot == [a \in Axes |-> RatDiv(RatSub(coord[a], ranges[a][0]), step[a])]
      idx == as_int64(quot)
      nonneg == [a \in Axes |-> IF idx[a] < 0 THEN 0 ELSE idx[a]]
      clamped == [a \in Axes |->
                    LET n == self.shape[a]
                    IN  IF nonneg[a] >= n THEN n ELSE nonneg[a]]
  IN  Return(self, clamped)

coord_to_idx(self, coord) ==
  LET step == self.voxel_size
      ranges == self.ranges
      quot == [a \in Axes |-> RatDiv(RatSub(coord[a], ranges[a][0]), step[a])]
      idx == as_int64(quot)
      nonneg == [a \in Axes |-> IF idx[a] < 0 THEN 0 ELSE idx[a]]
      clamped == [a \in Axes |->
                    LET n == self.shape[a]
                    IN  IF nonneg[a] >= n THEN n - 1 ELSE nonneg[a]]
  IN  Return(self, clamped)

coord_to_voxel(self, coord) ==
  LET r == coord_to_idx(self, coord)
  IN  idx_to_voxel(r.self, r.ret)

\* torch.linspace(start, end, steps), steps >= 2
linspace(start, end, steps) ==
  [k \in 0 .. steps - 1 |->
     RatAdd(start, RatDiv(RatMul(FromInt(k), RatSub(end, start)), FromInt(steps - 1)))]

bins(self) ==
  Return(self, [a \in Axes |->
                  linspace(self.ranges[a][0], self.ranges[a][1], self.shape[a] + 1)])

bin_centers(self) ==
  LET b == bins(self).ret
  IN  Return(self, [a \in Axes |->
                      [k \in 0 .. self.shape[a] - 1 |->
                         RatDiv(RatAdd(b[a][k + 1], b[a][k]), FromInt(2))]])

(* --------------------------- axes and slices -------------------------- *)

\* an axis specifier: an int, or a str (isinstance(axis, str))
IntAxis(i) == [type |-> "int", i |-> i, s |-> ""]

StrAxis(s) == [type |-> "str", i |-> 0, s |-> s]

\* axis_to_num = dict(x=0, y=1, z=2)
axis_to_num == [x |-> 0, y |-> 1, z |-> 2]

\* list.pop(i) of Python: the list without its element at position i,
\* a negative i counting from the end
Pop(list, i) ==
  LET k == IF i < 0 THEN i + Len(list) ELSE i
  IN  SubSeq(list, 1, k) \o SubSeq(list, k + 2, Len(list))

\* x in list, for an int or a str x and a list of ints
InList(axis, list) ==
  axis.type = "int" /\ \E k \in 1 .. Len(list) : list[k] = axis.i

\* select_axis that rejects only an axis above 2, so that -1 reaches pop
select_axis_negative(axis) ==
  LET resolved == IF axis.type = "str" /\ axis.s \in DOMAIN axis_to_num
                    THEN IntAxis(axis_to_num[axis.s])
                    ELSE axis
      axis_others == <<0, 1, 2>>
  IN  IF resolved.type # "int" \/ resolved.i > 2
        THEN [ret |-> <<>>, raised |-> "IndexError"]
        ELSE [ret |-> [axis |-> resolved.i,
                       axis_others |-> Pop(axis_others, resolved.i)],
              raised |-> ""]

select_axis(axis) ==
  LET resolved == IF axis.type = "str" /\ axis.s \in DOMAIN axis_to_num
                    THEN IntAxis(axis_to_num[axis.s])
                    ELSE axis
      axis_others == <<0, 1, 2>>
  IN  IF ~InList(resolved, axis_others)
        THEN [ret |-> <<>>, raised |-> "IndexError"]
        ELSE [ret |-> [axis |-> resolved.i,
                       axis_others |-> Pop(axis_others, resolved.i)],
              raised |-> ""]

\* torch.meshgrid of three 1-D tensors (a scalar counts as one element),
\* each output flattened, then column_stack: one row per grid point, the
\* last axis varying fastest
meshgrid_rows(grid) ==
  LET n0 == Len(grid[0])
      n1 == Len(grid[1])
      n2 == Len(grid[2])
  IN  [r \in 1 .. n0 * n1 * n2 |->
         [a \in Axes |->
            CASE a = 0 -> grid[0][((r - 1) \div (n1 * n2)) + 1]
              [] a = 1 -> grid[1][(((r - 1) \div n2) % n1) + 1]
              [] a = 2 -> grid[2][((r - 1) % n2) + 1]]]

\* torch.arange(n) as a sequence
arange(n) == [k \in 1 .. n |-> k - 1]

\* idx_at with the range of axis_a used for axis_b too
idx_at_same_range(self, axis, i) ==
  LET sel == select_axis(axis)
  IN  IF sel.raised # ""
        THEN Raise(self, sel.raised)
        ELSE LET ax == sel.ret.axis
                 axis_a == sel.ret.axis_others[1]
                 grid == [a \in Axes |->
                            IF a = ax THEN <<i>> ELSE arange(self.shape[axis_a])]
             IN  Return(self, meshgrid_rows(grid))

idx_at(self, axis, i) ==
  LET sel == select_axis(axis)
  IN  IF sel.raised # ""
        THEN Raise(self, sel.raised)
        ELSE LET ax == sel.ret.axis
                 axis_a == sel.ret.axis_others[1]
                 axis_b == sel.ret.axis_others[2]
                 grid == [a \in Axes |->
                            IF a = ax THEN <<i>>
                            ELSE IF a = axis_a THEN arange(self.shape[axis_a])
                            ELSE arange(self.shape[axis_b])]
             IN  Return(self, meshgrid_rows(grid))

\* digitize without the clamp of negative bins to 0
digitize_no_lower_clamp(self, x, axis) ==
  LET sel == select_axis(axis)
  IN  IF sel.raised # ""
        THEN Raise(self, sel.raised)
        ELSE LET ax == sel.ret.axis
                 n == self.shape[ax]
                 xmin == self.ranges[ax][0]
                 step == self.voxel_size[ax]
                 idx == ToInt64(RatDiv(RatSub(x, xmin), step))
                 clamped == IF idx >= n THEN n - 1 ELSE idx
             IN  Return(self, clamped)

digitize(self, x, axis) ==
  LET sel == select_axis(axis)
  IN  IF sel.raised # ""
        THEN Raise(self, sel.raised)
        ELSE LET ax == sel.ret.axis
                 n == self.shape[ax]
                 xmin == self.ranges[ax][0]
                 step == self.voxel_size[ax]
                 idx == ToInt64(RatDiv(RatSub(x, xmin), step))
                 nonneg == IF idx < 0 THEN 0 ELSE idx
                 clamped == IF nonneg >= n THEN n - 1 ELSE nonneg
             IN  Return(self, clamped)

(* -------------------------------- load -------------------------------- *)

\* the argument of load: its Python type and, for a dict, whether it holds
\* cfg['photonlib']['filepath']
Descriptor(type, haskey) == [type |-> type, haskey |-> haskey]

\* a photon library file: absent, or holding min, max and numvox
NoFile == [exists |-> FALSE]

LibFile(shape, ranges) ==
  [exists |-> TRUE,
   min |-> [a \in Axes |-> ranges[a][0]],
   max |-> [a \in Axes |-> ranges[a][1]],
   numvox |-> shape]

\* torch.column_stack((min, max)): the N x 2 table
column_stack(mn, mx) == [a \in DOMAIN mn |-> [k \in 0 .. 1 |-> IF k = 0 THEN mn[a] ELSE mx[a]]]

\* a load yields the instance, the exception and how many times
\* h5py.File was called
AABox_load(cfg_or_fname, f) ==
  IF cfg_or_fname.type = "dict" /\ ~cfg_or_fname.haskey
    THEN [ret |-> <<>>, raised |-> "KeyError", opened |-> 0]
  ELSE IF cfg_or_fname.type \notin {"dict", "str"}
    THEN [ret |-> <<>>, raised |-> "TypeError", opened |-> 0]
  ELSE IF ~f.exists
    THEN [ret |-> <<>>, raised |-> "OSError", opened |-> 1]
  ELSE [ret |-> AABox_init(column_stack(f.min, f.max)), raised |-> "", opened |-> 1]

\* VoxelMeta.load that opens the file before it looks at the type
VoxelMeta_load_open_first(cfg_or_fname, f) ==
  IF cfg_or_fname.type = "dict" /\ ~cfg_or_fname.haskey
    THEN [ret |-> <<>>, raised |-> "KeyError", opened |-> 0]
  ELSE IF cfg_or_fname.type \notin {"dict", "str"}
    THEN [ret |-> <<>>, raised |-> "TypeError", opened |-> 1]
  ELSE IF ~f.exists
    THEN [ret |-> <<>>, raised |-> "OSError", opened |-> 1]
  ELSE LET shape == [a \in Axes |-> FromInt(f.numvox[a])]
       IN  [ret |-> VoxelMeta_init(as_int64(shape), column_stack(f.min, f.max)),
            raised |-> "", opened |-> 1]

\* numvox is read as float32 and the constructor casts it to int64
VoxelMeta_load(cfg_or_fname, f) ==
  IF cfg_or_fname.type = "dict" /\ ~cfg_or_fname.haskey
    THEN [ret |-> <<>>, raised |-> "KeyError", opened |-> 0]
  ELSE IF cfg_or_fname.type \notin {"dict", "str"}
    THEN [ret |-> <<>>, raised |-> "TypeError", opened |-> 0]
  ELSE IF ~f.exists
    THEN [ret |-> <<>>, raised |-> "OSError", opened |-> 1]
  ELSE LET shape == [a \in Axes |-> FromInt(f.numvox[a])]
       IN  [ret |-> VoxelMeta_init(as_int64(shape), column_stack(f.min, f.max)),
            raised |-> "", opened |-> 1]

(* ----------------------------- the program ---------------------------- *)

\* one row [min, max] of the N x 2 range table
Row(mn, mx) == [k \in 0 .. 1 |-> IF k = 0 THEN mn ELSE mx]

\* the N x 2 range tables and the shapes a grid is constructed from
RangeTables ==
  {[a \in Axes |-> Row(FromInt(mn[a]), FromInt(mn[a] + ln[a]))] :
     mn \in [Axes -> MinSet], ln \in [Axes -> LenSet]}

Shapes == [Axes -> 1 .. MaxShape]

Init ==
  /\ \E shape \in Shapes, ranges \in RangeTables :
       meta = VoxelMeta_init(shape, ranges)
  /\ ctor = meta
  /\ op = "__init__"
  /\ arg = <<>>
  /\ ret = <<>>
  /\ err = ""
  /\ files = 0

\* a call of a method on the instance: the instance, the result and the
\* exception are what the method yields
Call(name, a, r) ==
  /\ op' = name
  /\ arg' = a
  /\ meta' = r.self
  /\ ret' = r.ret
  /\ err' = r.raised
  /\ UNCHANGED <<ctor, files>>

\* the caller calls a method when no result is pending
Ready == op \in {"__init__", "idle"}

\* the caller drops the result of the last call
Discard ==
  /\ ~Ready
  /\ op' = "idle"
  /\ arg' = <<>>
  /\ ret' = <<>>
  /\ err' = ""
  /\ UNCHANGED <<meta, ctor, files>>

IdxInputs ==
  {i \in [Axes -> -MaxOutside .. MaxShape - 1 + MaxOutside] :
     \A a \in Axes : i[a] <= meta.shape[a] - 1 + MaxOutside}

VoxelInputs == -(Prod(meta.shape) + MaxOutside) .. Prod(meta.shape) - 1 + MaxOutside

DoLen == Ready /\ Call("__len__", <<>>, VoxelMeta_len(meta))

DoIdxToVoxel == Ready /\ \E idx \in IdxInputs : Call("idx_to_voxel", idx, idx_to_voxel(meta, idx))

DoVoxelToIdx == Ready /\ \E v \in VoxelInputs : Call("voxel_to_idx", v, voxel_to_idx(meta, v))

DoCheckValidIdx ==
  Ready /\ \E idx \in IdxInputs, rc \in BOOLEAN :
    Call("check_valid_idx", [idx |-> idx, return_components |-> rc],
         check_valid_idx(meta, idx, rc))

CoordSet == {Rat(k, 2) : k \in -MaxCoord .. MaxCoord}

CoordInputs == [Axes -> CoordSet]

AxisInputs ==
  {IntAxis(i) : i \in -MaxOutside .. 2 + MaxOutside}
    \cup {StrAxis(s) : s \in {"x", "y", "z", "w"}}

PositionInputs == -MaxOutside .. MaxShape - 1 + MaxOutside

DoNormCoord ==
  Ready /\ \E pos \in CoordInputs : Call("norm_coord", pos, norm_coord(meta, pos))

DoIdxToCoord ==
  Ready /\ \E idx \in IdxInputs : Call("idx_to_coord", idx, idx_to_coord(meta, idx))

DoVoxelToCoord ==
  Ready /\ \E v \in VoxelInputs : Call("voxel_to_coord", v, voxel_to_coord(meta, v))

DoCoordToIdx ==
  Ready /\ \E coord \in CoordInputs : Call("coord_to_idx", coord, coord_to_idx(meta, coord))

DoCoordToVoxel ==
  Ready /\ \E coord \in CoordInputs :
    Call("coord_to_voxel", coord, coord_to_voxel(meta, coord))

DoBins == Ready /\ Call("bins", <<>>, bins(meta))

DoBinCenters == Ready /\ Call("bin_centers", <<>>, bin_centers(meta))

DoSelectAxis ==
  Ready /\ \E axis \in AxisInputs :
    Call("select_axis", axis, [self |-> meta] @@ select_axis(axis))

DoIdxAt ==
  Ready /\ \E axis \in AxisInputs, i \in PositionInputs :
    Call("idx_at", [axis |-> axis, i |-> i], idx_at(meta, axis, i))

DoDigitize ==
  Ready /\ \E x \in CoordSet, axis \in AxisInputs :
    Call("digitize", [x |-> x, axis |-> axis], digitize(meta, x, axis))

Descriptors ==
  {Descriptor(t, TRUE) : t \in {"dict", "str", "int", "list", "NoneType"}}
    \cup {Descriptor("dict", FALSE)}

DiskFiles ==
  {NoFile} \cup {LibFile(shape, ranges) : shape \in Shapes, ranges \in RangeTables}

\* a load: the caller holds the instance it returns, when it returns one
Load(name, cfg, r) ==
  /\ Ready
  /\ files + r.opened <= MaxOpen
  /\ op' = name
  /\ arg' = cfg
  /\ ret' = <<>>
  /\ err' = r.raised
  /\ files' = files + r.opened
  /\ meta' = IF r.raised = "" THEN r.ret ELSE meta
  /\ ctor' = IF r.raised = "" THEN r.ret ELSE ctor

DoAABoxLoad ==
  \E cfg \in Descriptors, f \in DiskFiles : Load("AABox.load", cfg, AABox_load(cfg, f))

DoVoxelMetaLoad ==
  \E cfg \in Descriptors, f \in DiskFiles :
    Load("VoxelMeta.load", cfg, VoxelMeta_load(cfg, f))

NextIndex == DoLen \/ DoIdxToVoxel \/ DoVoxelToIdx \/ DoCheckValidIdx \/ Discard

SpecIndex == Init /\ [][NextIndex]_vars

NextCoord ==
  DoNormCoord \/ DoIdxToCoord \/ DoVoxelToCoord \/ DoCoordToIdx \/ DoCoordToVoxel
    \/ DoBins \/ DoBinCenters \/ Discard

SpecCoord == Init /\ [][NextCoord]_vars

NextAxis == DoSelectAxis \/ DoIdxAt \/ DoDigitize \/ Discard

SpecAxis == Init /\ [][NextAxis]_vars

NextLoad == DoAABoxLoad \/ DoVoxelMetaLoad \/ Discard

SpecLoad == Init /\ [][NextLoad]_vars

\* every conversion and query on one constructed grid
NextQuery ==
  DoNormCoord \/ DoIdxToVoxel \/ DoVoxelToIdx \/ DoIdxToCoord \/ DoCoordToIdx
    \/ DoCoordToVoxel \/ DoVoxelToCoord \/ DoBins \/ DoBinCenters \/ DoIdxAt
    \/ DoCheckValidIdx \/ DoDigitize \/ DoSelectAxis \/ DoLen \/ Discard

SpecQuery == Init /\ [][NextQuery]_vars

(* ------------------------------ the claims ---------------------------- *)

ValidIdx(idx) == \A a \in Axes : 0 <= idx[a] /\ idx[a] < meta.shape[a]

\* an axis position 0/1/2 or a label x/y/z
Recognized(axis) ==
  \/ axis.type = "int" /\ axis.i \in Axes
  \/ axis.type = "str" /\ axis.s \in {"x", "y", "z"}

AxisNum(axis) ==
  IF axis.type = "int" THEN axis.i
  ELSE CASE axis.s = "x" -> 0 [] axis.s = "y" -> 1 [] axis.s = "z" -> 2

OthersAscending(ax) == CASE ax = 0 -> <<1, 2>> [] ax = 1 -> <<0, 2>> [] ax = 2 -> <<0, 1>>

\* min(max(floor((x - min) / voxel_size), 0), n-1) on one axis
ClampedBin(x, a) ==
  Min2(Max2(Floor(RatDiv(RatSub(x, meta.ranges[a][0]), meta.voxel_size[a])), 0),
       meta.shape[a] - 1)

\* C1: on a valid index idx_to_voxel gives idx[0] + idx[1]*shape[0] +
\* idx[2]*shape[0]*shape[1], which lies in [0, total) and which voxel_to_idx
\* maps back to the index; on an id in [0, total) idx_to_voxel maps the
\* result of voxel_to_idx back to the id.
C1_Bijection ==
  /\ (op = "idx_to_voxel" /\ ValidIdx(arg)) =>
       /\ err = ""
       /\ ret = arg[0] + arg[1] * meta.shape[0] + arg[2] * meta.shape[0] * meta.shape[1]
       /\ 0 <= ret /\ ret < Prod(meta.shape)
       /\ voxel_to_idx(meta, ret).ret = arg
  /\ (op = "voxel_to_idx" /\ 0 <= arg /\ arg < Prod(meta.shape)) =>
       /\ err = ""
       /\ idx_to_voxel(meta, ret).ret = arg

C1_Witness ==
  /\ op = "idx_to_voxel"
  /\ \A a \in Axes : meta.shape[a] = 2 /\ arg[a] = 1
  /\ ret = 7

\* C2: coord_to_idx returns on every axis
\* min(max(floor((coord - min) / voxel_size), 0), shape - 1), a valid index,
\* and raises nothing, for a coordinate inside or outside the box.
C2_CoordToIdxClamps ==
  op = "coord_to_idx" =>
    /\ err = ""
    /\ \A a \in Axes : ret[a] = ClampedBin(arg[a], a)
    /\ ValidIdx(ret)

C2_Witness ==
  /\ op = "coord_to_idx"
  /\ \E a \in Axes : RatLt(arg[a], meta.ranges[a][0]) /\ ret[a] = 0
  /\ \E a \in Axes : RatLt(meta.ranges[a][1], arg[a]) /\ ret[a] = meta.shape[a] - 1
  /\ \E a \in Axes : meta.shape[a] = 2 /\ ret[a] = 1

\* C3: idx_to_coord of a valid index is min + (idx + 0.5) * voxel_size, and
\* coord_to_idx maps that centre back to the index.
C3_CentreRoundTrip ==
  (op = "idx_to_coord" /\ ValidIdx(arg)) =>
    /\ err = ""
    /\ \A a \in Axes :
         ret[a] = RatAdd(meta.ranges[a][0],
                         RatMul(RatAdd(FromInt(arg[a]), Rat(1, 2)), meta.voxel_size[a]))
    /\ coord_to_idx(meta, ret).ret = arg

C3_Witness ==
  /\ op = "idx_to_coord"
  /\ ValidIdx(arg)
  /\ \E a \in Axes : arg[a] = 1 /\ meta.ranges[a][0] = FromInt(-1)
  /\ coord_to_idx(meta, ret).ret = arg

\* C4: digitize(x, axis) of a recognized axis returns
\* min(max(floor((x - min[axis]) / voxel_size[axis]), 0), shape[axis] - 1),
\* which lies in [0, shape[axis] - 1], for x below, inside and above the range.
C4_DigitizeClamps ==
  (op = "digitize" /\ Recognized(arg.axis)) =>
    /\ err = ""
    /\ ret = ClampedBin(arg.x, AxisNum(arg.axis))
    /\ 0 <= ret /\ ret <= meta.shape[AxisNum(arg.axis)] - 1

C4_Witness ==
  /\ op = "digitize"
  /\ arg.axis = StrAxis("y")
  /\ RatLt(arg.x, meta.ranges[1][0])
  /\ Floor(RatDiv(RatSub(arg.x, meta.ranges[1][0]), meta.voxel_size[1])) < 0
  /\ ret = 0

C6_LenIsProduct ==
  op = "__len__" => (err = "" /\ ret = Prod(meta.shape))

\* C7: select_axis returns the integer axis and the other two axes in
\* ascending order for 0/1/2 and x/y/z, and raises IndexError, returning
\* nothing, for any other specifier; digitize with such an axis raises
\* the same and gives no bin.
C7_SelectAxis ==
  /\ op = "select_axis" =>
       IF Recognized(arg)
         THEN /\ err = ""
              /\ ret.axis = AxisNum(arg)
              /\ ret.axis_others = OthersAscending(AxisNum(arg))
         ELSE /\ err = "IndexError"
              /\ ret = <<>>
  /\ (op = "digitize" /\ ~Recognized(arg.axis)) =>
       /\ err = "IndexError"
       /\ ret = <<>>

C7_Witness ==
  /\ op = "select_axis"
  /\ arg = IntAxis(-1)
  /\ err = "IndexError"

\* C8: a load whose argument is neither a dict nor a str raises TypeError
\* without opening a file and without constructing an instance.
C8_LoadTypeError ==
  [][(op' \in {"AABox.load", "VoxelMeta.load"} /\ Ready
        /\ arg'.type \notin {"dict", "str"})
       => (err' = "TypeError" /\ files' = files /\ meta' = meta /\ ctor' = ctor)]_vars

C8_Witness ==
  /\ op = "VoxelMeta.load"
  /\ arg.type = "list"
  /\ err = "TypeError"
  /\ files = 1

\* C9: after any conversion or query, clamping and raising ones included,
\* ranges, lengths, shape and voxel_size are what the constructor set.
C9_Immutable ==
  /\ meta.ranges = ctor.ranges
  /\ meta.lengths = ctor.lengths
  /\ meta.shape = ctor.shape
  /\ meta.voxel_size = ctor.voxel_size

C9_Witness ==
  /\ op = "coord_to_voxel"
  /\ \E a \in Axes : RatLt(arg[a], meta.ranges[a][0])
  /\ \E a \in Axes : RatLt(meta.ranges[a][1], arg[a])
  /\ meta = ctor

\* C10: voxel_to_idx(id) passes check_valid_idx exactly when
\* 0 <= id < total; an id outside that range, a negative one included,
\* gives an index outside [0, shape).
C10_ValidIffInRange ==
  op = "voxel_to_idx" =>
    (check_valid_idx(meta, ret, FALSE).ret <=> (0 <= arg /\ arg < Prod(meta.shape)))

C10_Witness ==
  /\ op = "voxel_to_idx"
  /\ arg = -1
  /\ Prod(meta.shape) > 1
  /\ ~check_valid_idx(meta, ret, FALSE).ret

====
